---- MODULE Spec2Model ----
(***************************************************************************)
(* The Quantum Espresso molecular-dynamics notebook                        *)
(* (6_dynamics/2_nbra_workflows/2_step1_qe/tutorial.ipynb) as a state      *)
(* machine: five code cells executed top to bottom by a kernel.            *)
(*   cell 1  !module load espresso/6.2.1                                   *)
(*   cell 2  QE_input_file = """..."""          (the input deck, a string) *)
(*   cell 3  f = open("x0.md.in","w"); f.write(QE_input_file); f.close()   *)
(*   cell 4  !pw.x < x0.md.in > x0.md.out                                  *)
(*   cell 5  !sh clean.sh                                                  *)
(* A Python exception ends the run at the cell that raised it; a `!` shell *)
(* line never raises, it only leaves the command's status in _exit_code.   *)
(* Runs are indexed so that two kernels executing the notebook can be      *)
(* interleaved over one file system.                                       *)
(***************************************************************************)
EXTENDS Integers, Sequences, FiniteSets, TLC

VARIABLES
    deck,            \* per run: the parameters typed into the deck string
    QE_input_file,   \* per run: the deck text, a sequence of lines (<<>> before cell 2)
    pc,              \* per run: the next cell ("off", "cell1".."cell5", "running", "end", "aborted")
    f,               \* per run: the file object of cell 3: "none", "open", "closed"
    raised,          \* per run: the Python exception that ended the run, or "none"
    exit_code,       \* per run: IPython's _exit_code, -1 while unset
    procExit,        \* per run: the exit code pw.x itself ended with, -1 if it never ran
    launch,          \* per run: "none", "ok" (pw.x started), "failed" (the shell could not start it)
    procState,       \* per run: the external process: "Idle", "Running", "Done"
    invocations,     \* per run: how many times the shell line of cell 4 was issued
    cleanCalls,      \* per run: how many times cell 5 ran
    rmErrors,        \* per run: the patterns the last clean.sh reported "cannot remove" for
    cwd,             \* per run: the working directory of the kernel
    files,           \* the file system: the set of <<directory, name>> that exist
    inData,          \* per directory: the content of x0.md.in (a sequence of lines)
    outData,         \* per directory: the content of x0.md.out: "none", "stale", "empty", "pwout"
    wrote,           \* history: <<run, path>> for every file a run created or wrote
    deleted          \* history: <<run, path>> for every file a run removed

vars == <<deck, QE_input_file, pc, f, raised, exit_code, procExit, launch, procState,
          invocations, cleanCalls, rmErrors, cwd, files, inData, outData,
          wrote, deleted>>

----------------------------------------------------------------------------
(* Bounds *)

\* the largest number of Ti rows and of O rows a deck's ATOMIC_POSITIONS may hold
MaxTi == 2
MaxO == 4
\* the largest number of ATOMIC_SPECIES rows
MaxSpecies == 2
\* the largest exit code the external program returns
MaxExit == 2
\* how many times cell 5 is executed in a row
MaxCleanCalls == 2

Runs == {1, 2}
Dirs == {"A", "B"}
Labels == {"Ti", "O"}

----------------------------------------------------------------------------
(* File names, as sequences of characters so that globbing is computed *)

X0 == <<"x", "0">>
X1 == <<"x", "1">>
InName == <<"x", "0", ".", "m", "d", ".", "i", "n">>
OutName == <<"x", "0", ".", "m", "d", ".", "o", "u", "t">>
CrashName == <<"C", "R", "A", "S", "H">>
SlurmName == <<"s", "l", "u", "r", "m", ".", "o", "u", "t">>
WfcName(prefix) == prefix \o <<".", "w", "f", "c", "1">>
UpdateName(prefix) == prefix \o <<".", "u", "p", "d", "a", "t", "e">>

----------------------------------------------------------------------------
(* The deck text.  A line is a record; kind is "blank", "header", "key",   *)
(* "close" (the "/" ending a namelist) or "row".  Only the values the      *)
(* notebook's own logic or the file names depend on are kept (nat, ntyp,   *)
(* prefix and the integer parameters); the other values are passed through *)
(* as text and are not modelled.                                           *)

Line(k, n, v, s) == [kind |-> k, name |-> n, num |-> v, str |-> s]
Blank == Line("blank", "", 0, <<>>)
Header(n) == Line("header", n, 0, <<>>)
Key(n, v) == Line("key", n, v, <<>>)
KeyStr(n, s) == Line("key", n, 0, s)
Close == Line("close", "/", 0, <<>>)
Row(label) == Line("row", label, 0, <<>>)

Rows(labels) == [i \in 1..Len(labels) |-> Row(labels[i])]

SectionNames == {"&CONTROL", "&SYSTEM", "&ELECTRONS", "&IONS", "ATOMIC_SPECIES",
                 "K_POINTS", "CELL_PARAMETERS", "ATOMIC_POSITIONS"}

ControlBlock(d) ==
    << Header("&CONTROL"),
       KeyStr("calculation", <<>>), Key("nstep", 100), KeyStr("dt", <<>>),
       KeyStr("pseudo_dir", <<>>), KeyStr("outdir", <<".", "/">>),
       KeyStr("prefix", d.prefix), KeyStr("disk_io", <<>>),
       Close, Blank >>

SystemBlock(d) ==
    << Header("&SYSTEM"),
       Key("ibrav", 0), Key("nat", d.nat), Key("ntyp", d.ntyp), Key("nspin", 1),
       Key("ecutwfc", 30), Key("ecutrho", 300), KeyStr("occupations", <<>>),
       KeyStr("smearing", <<>>), KeyStr("degauss", <<>>), KeyStr("nosym", <<>>),
       Close, Blank >>

ElectronsBlock ==
    << Header("&ELECTRONS"),
       Key("electron_maxstep", 300), KeyStr("conv_thr", <<>>),
       KeyStr("mixing_beta", <<>>),
       Close, Blank >>

\* an &IONS block pasted without its header line
IonsBlockNoHeader ==
    << Key("tempw", 300), Key("nraise", 10), Close, Blank >>

IonsBlock ==
    << Header("&IONS"),
       KeyStr("ion_dynamics", <<>>), KeyStr("ion_temperature", <<>>),
       Key("tempw", 300), Key("nraise", 10),
       KeyStr("pot_extrapolation", <<>>), KeyStr("wfc_extrapolation", <<>>),
       Close, Blank >>

SpeciesBlock(d) == <<Header("ATOMIC_SPECIES")>> \o Rows(d.species) \o <<Blank>>

KPointsBlock == <<Header("K_POINTS"), Blank>>

CellBlock == <<Header("CELL_PARAMETERS"), Row("vec"), Row("vec"), Row("vec"), Blank>>

PositionsBlock(d) == <<Header("ATOMIC_POSITIONS")>> \o Rows(d.positions)

\* cell 2: the deck string, line by line (the literal opens with a newline)
DeckText(d) ==
    <<Blank>> \o ControlBlock(d) \o SystemBlock(d) \o ElectronsBlock \o IonsBlock
      \o SpeciesBlock(d) \o KPointsBlock \o CellBlock \o PositionsBlock(d)

\* the deck of the notebook: 2 Ti and 4 O, two species, prefix x0
ReferenceDeck ==
    [nat |-> 6, ntyp |-> 2, species |-> <<"Ti", "O">>,
     positions |-> <<"Ti", "Ti", "O", "O", "O", "O">>, prefix |-> X0]

(* Reading a deck text back, as pw.x does *)

Range(s) == {s[i] : i \in DOMAIN s}
MaxOf(S) == CHOOSE x \in S : \A y \in S : y <= x

HeaderCount(text, n) ==
    Cardinality({i \in DOMAIN text : text[i].kind = "header" /\ text[i].name = n})

\* the section a line belongs to: the nearest header at or above it
SectionOf(text, i) ==
    LET hs == {j \in 1..i : text[j].kind = "header"}
    IN  IF hs = {} THEN "" ELSE text[MaxOf(hs)].name

RowsOf(text, section) ==
    {i \in DOMAIN text : text[i].kind = "row" /\ SectionOf(text, i) = section}

KeyLine(text, n) == text[CHOOSE i \in DOMAIN text : text[i].kind = "key" /\ text[i].name = n]

EmittedNat(text) == KeyLine(text, "nat").num
EmittedNtyp(text) == KeyLine(text, "ntyp").num
EmittedPrefix(text) == KeyLine(text, "prefix").str

\* the two count invariants of a deck
CountsConsistent(d) ==
    /\ d.nat = Len(d.positions)
    /\ d.ntyp = Cardinality(Range(d.species))

----------------------------------------------------------------------------
(* The shell and the kernel *)

\* a `!` line that raises when the command's status is not 0
BangChecked(status) == IF status = 0 THEN "none" ELSE "CalledProcessError"

\* a `!` line leaves the status in _exit_code and never raises
Bang(status) == "none"

\* a shell that reports only success or failure
ShellStatusFlattened(started, code) ==
    IF started THEN (IF code = 0 THEN 0 ELSE 1) ELSE 127

\* the status the shell reports for `pw.x < in > out`: the program's own exit
\* code (one byte) when it ran, 127 when the binary could not be found
ShellStatus(started, code) == IF started THEN code % 256 ELSE 127

ExitCodes == 0..MaxExit

\* the files pw.x may leave in outdir = './' under the deck's prefix
PwScratch(prefix) == {WfcName(prefix), UpdateName(prefix), CrashName}

(* Globbing: every pattern of clean.sh is a literal prefix followed by `*` *)

Matches(name, pat) ==
    Len(name) >= Len(pat) /\ SubSeq(name, 1, Len(pat)) = pat

\* the patterns of clean.sh, in the order its output names them
CleanPatterns ==
    << <<"x", "0", ".", "w">>, <<"s", "l">>, <<"x", "0", ".", "u">>, <<"C", "R">> >>

\* what the i-th rm of clean.sh finds among the names of the directory
MatchSet(names, i) ==
    {n \in names : /\ Matches(n, CleanPatterns[i])
                   /\ \A j \in 1..(i - 1) : ~Matches(n, CleanPatterns[j])}

\* clean.sh: one rm per pattern; an rm that matches nothing prints
\* "cannot remove ... No such file or directory" and the script goes on;
\* the script's status is that of its last rm
CleanSh(names) ==
    [removed |-> UNION {MatchSet(names, i) : i \in DOMAIN CleanPatterns},
     errors  |-> {i \in DOMAIN CleanPatterns : MatchSet(names, i) = {}},
     status  |-> IF MatchSet(names, Len(CleanPatterns)) = {} THEN 1 ELSE 0]

\* every name the notebook uses resolved against one fixed directory
PathAbsolute(d, name) == <<"A", name>>

\* "x0.md.in", "x0.md.out", outdir './' and the patterns of clean.sh are
\* relative: each resolves against the working directory of the kernel
PathOf(d, name) == <<d, name>>

NamesIn(d) == {p[2] : p \in {q \in files : q[1] = d}}

(* cell 3 *)

WriteOutcomes == {"ok", "openFails", "writeFails", "closeFails"}

\* the text that reached the disk when a write or the flush at close failed
Partial(text) == SubSeq(text, 1, Len(text) \div 2)

\* cell 3 with the file opened in append mode
WriteCellAppend(text, old, outcome) ==
    CASE outcome = "ok" ->
           [f |-> "closed", opened |-> TRUE, data |-> old \o text, raised |-> "none"]
      [] outcome = "openFails" ->
           [f |-> "none", opened |-> FALSE, data |-> old, raised |-> "IOError"]
      [] outcome = "writeFails" ->
           [f |-> "open", opened |-> TRUE, data |-> old \o Partial(text), raised |-> "IOError"]
      [] outcome = "closeFails" ->
           [f |-> "closed", opened |-> TRUE, data |-> old \o Partial(text), raised |-> "IOError"]

\* cell 3 without its f.close()
WriteCellNoClose(text, old, outcome) ==
    CASE outcome = "ok" ->
           [f |-> "open", opened |-> TRUE, data |-> text, raised |-> "none"]
      [] outcome = "openFails" ->
           [f |-> "none", opened |-> FALSE, data |-> old, raised |-> "IOError"]
      [] outcome = "writeFails" ->
           [f |-> "open", opened |-> TRUE, data |-> Partial(text), raised |-> "IOError"]
      [] outcome = "closeFails" ->
           [f |-> "open", opened |-> TRUE, data |-> Partial(text), raised |-> "IOError"]

\* f = open("x0.md.in","w"); f.write(QE_input_file); f.close()
\* open(...,"w") truncates; an exception in f.write skips f.close(); a failed
\* flush inside f.close() still closes the file
WriteCell(text, old, outcome) ==
    CASE outcome = "ok" ->
           [f |-> "closed", opened |-> TRUE, data |-> text, raised |-> "none"]
      [] outcome = "openFails" ->
           [f |-> "none", opened |-> FALSE, data |-> old, raised |-> "IOError"]
      [] outcome = "writeFails" ->
           [f |-> "open", opened |-> TRUE, data |-> Partial(text), raised |-> "IOError"]
      [] outcome = "closeFails" ->
           [f |-> "closed", opened |-> TRUE, data |-> Partial(text), raised |-> "IOError"]

\* where the run goes after a cell: on, or out with the exception
After(exc, next) == IF exc = "none" THEN next ELSE "aborted"

----------------------------------------------------------------------------
(* The cells *)

\* cell 1: !module load espresso/6.2.1 (a subshell: nothing outlives it but the status)
LoadModule(r) ==
    /\ pc[r] = "cell1"
    /\ \E status \in {0, 1} :
         /\ exit_code' = [exit_code EXCEPT ![r] = status]
         /\ raised' = [raised EXCEPT ![r] = Bang(status)]
         /\ pc' = [pc EXCEPT ![r] = After(Bang(status), "cell2")]
    /\ UNCHANGED <<deck, QE_input_file, f, launch, procState, procExit, invocations,
                   cleanCalls, rmErrors, cwd, files, inData, outData, wrote, deleted>>

\* cell 2: QE_input_file = """...""" (an assignment: nothing is checked)
BuildDeck(r) ==
    /\ pc[r] = "cell2"
    /\ QE_input_file' = [QE_input_file EXCEPT ![r] = DeckText(deck[r])]
    /\ pc' = [pc EXCEPT ![r] = "cell3"]
    /\ UNCHANGED <<deck, f, raised, exit_code, launch, procState, procExit, invocations,
                   cleanCalls, rmErrors, cwd, files, inData, outData, wrote, deleted>>

\* cell 3: write the deck to x0.md.in in the working directory
WriteDeck(r) ==
    /\ pc[r] = "cell3"
    /\ \E outcome \in WriteOutcomes :
         LET d == cwd[r]
             w == WriteCell(QE_input_file[r], inData[d], outcome)
         IN  /\ f' = [f EXCEPT ![r] = w.f]
             /\ raised' = [raised EXCEPT ![r] = w.raised]
             /\ inData' = [inData EXCEPT ![d] = w.data]
             /\ files' = IF w.opened THEN files \cup {PathOf(d, InName)} ELSE files
             /\ wrote' = IF w.opened THEN wrote \cup {<<r, PathOf(d, InName)>>} ELSE wrote
             /\ pc' = [pc EXCEPT ![r] = After(w.raised, "cell4")]
    /\ UNCHANGED <<deck, QE_input_file, exit_code, launch, procState, procExit,
                   invocations, cleanCalls, rmErrors, cwd, outData, deleted>>

\* cell 4, first half: the shell binds x0.md.in to stdin, creates or truncates
\* x0.md.out for stdout and starts pw.x, or fails to find it
ExecStart(r) ==
    /\ pc[r] = "cell4"
    /\ PathOf(cwd[r], InName) \in files
    /\ \E found \in BOOLEAN :
         launch' = [launch EXCEPT ![r] = IF found THEN "ok" ELSE "failed"]
    /\ files' = files \cup {PathOf(cwd[r], OutName)}
    /\ outData' = [outData EXCEPT ![cwd[r]] = "empty"]
    /\ wrote' = wrote \cup {<<r, PathOf(cwd[r], OutName)>>}
    /\ procState' = [procState EXCEPT ![r] = "Running"]
    /\ invocations' = [invocations EXCEPT ![r] = @ + 1]
    /\ pc' = [pc EXCEPT ![r] = "running"]
    /\ UNCHANGED <<deck, QE_input_file, f, raised, exit_code, procExit, cleanCalls,
                   rmErrors, cwd, inData, deleted>>

\* cell 4, second half: the kernel blocks until the command ends, then stores
\* its status; pw.x read the deck from stdin and named its files by the prefix
ExecExit(r) ==
    /\ pc[r] = "running"
    /\ \E code \in ExitCodes, scratch \in SUBSET PwScratch(EmittedPrefix(inData[cwd[r]])) :
         LET started == launch[r] = "ok"
             status == ShellStatus(started, code)
             made == IF started THEN {PathOf(cwd[r], n) : n \in scratch} ELSE {}
         IN  /\ procExit' = [procExit EXCEPT ![r] = IF started THEN code ELSE -1]
             /\ exit_code' = [exit_code EXCEPT ![r] = status]
             /\ raised' = [raised EXCEPT ![r] = Bang(status)]
             /\ pc' = [pc EXCEPT ![r] = After(Bang(status), "cell5")]
             /\ files' = files \cup made
             /\ wrote' = wrote \cup {<<r, p>> : p \in made}
             /\ outData' = [outData EXCEPT ![cwd[r]] = IF started THEN "pwout" ELSE @]
    /\ procState' = [procState EXCEPT ![r] = "Done"]
    /\ UNCHANGED <<deck, QE_input_file, f, launch, invocations, cleanCalls, rmErrors,
                   cwd, inData, deleted>>

\* cell 5: !sh clean.sh
Cleanup(r) ==
    /\ pc[r] = "cell5"
    /\ LET c == CleanSh(NamesIn(cwd[r]))
           gone == {PathOf(cwd[r], n) : n \in c.removed}
       IN  /\ files' = files \ gone
           /\ deleted' = deleted \cup {<<r, p>> : p \in gone}
           /\ rmErrors' = [rmErrors EXCEPT ![r] = c.errors]
           /\ exit_code' = [exit_code EXCEPT ![r] = c.status]
           /\ raised' = [raised EXCEPT ![r] = Bang(c.status)]
           /\ pc' = [pc EXCEPT ![r] = After(Bang(c.status), "end")]
    /\ cleanCalls' = [cleanCalls EXCEPT ![r] = @ + 1]
    /\ UNCHANGED <<deck, QE_input_file, f, launch, procState, procExit, invocations,
                   cwd, inData, outData, wrote>>

----------------------------------------------------------------------------
(* Initial states *)

TiRows(a) == [i \in 1..a |-> "Ti"]
ORows(b) == [i \in 1..b |-> "O"]
SpeciesLists == UNION {[1..n -> Labels] : n \in 0..MaxSpecies}

\* the decks a user can type into cell 2, around the notebook's own
Decks ==
    {[nat |-> n, ntyp |-> t, species |-> sp, positions |-> TiRows(a) \o ORows(b),
      prefix |-> X0] :
        n \in 0..(MaxTi + MaxO), t \in 0..MaxSpecies, sp \in SpeciesLists,
        a \in 0..MaxTi, b \in 0..MaxO}

StaleDeck == <<Row("stale")>>

\* state shared by every specification: nothing has run yet
Fresh ==
    /\ QE_input_file = [r \in Runs |-> <<>>]
    /\ f = [r \in Runs |-> "none"]
    /\ raised = [r \in Runs |-> "none"]
    /\ exit_code = [r \in Runs |-> -1]
    /\ procExit = [r \in Runs |-> -1]
    /\ launch = [r \in Runs |-> "none"]
    /\ procState = [r \in Runs |-> "Idle"]
    /\ invocations = [r \in Runs |-> 0]
    /\ cleanCalls = [r \in Runs |-> 0]
    /\ rmErrors = [r \in Runs |-> {}]
    /\ wrote = {}
    /\ deleted = {}

\* the notebook's deck with its last coordinate row deleted and nat left at 6
FiveRowDeck == [ReferenceDeck EXCEPT !.positions = <<"Ti", "Ti", "O", "O", "O">>]

OneKernel ==
    /\ pc = [r \in Runs |-> IF r = 1 THEN "cell1" ELSE "off"]
    /\ cwd = [r \in Runs |-> IF r = 1 THEN "A" ELSE "B"]
    /\ outData = [d \in Dirs |-> "none"]

\* one kernel runs the notebook in directory A, which may hold an older
\* x0.md.in and a scheduler log
Init ==
    /\ Fresh
    /\ OneKernel
    /\ deck \in [Runs -> {ReferenceDeck, FiveRowDeck}]
    /\ deck[2] = ReferenceDeck
    /\ \E old \in SUBSET {InName, SlurmName} :
         /\ files = {<<"A", n>> : n \in old}
         /\ inData = [d \in Dirs |-> IF d = "A" /\ InName \in old THEN StaleDeck ELSE <<>>]

\* one kernel, any deck of Decks, an empty directory
InitDeck ==
    /\ Fresh
    /\ OneKernel
    /\ deck \in [Runs -> Decks]
    /\ deck[2] = ReferenceDeck
    /\ files = {}
    /\ inData = [d \in Dirs |-> <<>>]

\* the names a working directory may hold when cell 5 runs
CleanupNames ==
    {InName, OutName, SlurmName, CrashName, WfcName(X0), UpdateName(X0),
     WfcName(X1), X0 \o <<".", "m", "d">>}

\* one kernel about to run cell 5 in a directory holding any of CleanupNames
InitCleanup ==
    /\ Fresh
    /\ deck = [r \in Runs |-> ReferenceDeck]
    /\ pc = [r \in Runs |-> IF r = 1 THEN "cell5" ELSE "off"]
    /\ cwd = [r \in Runs |-> IF r = 1 THEN "A" ELSE "B"]
    /\ outData = [d \in Dirs |-> "none"]
    /\ inData = [d \in Dirs |-> <<>>]
    /\ \E present \in SUBSET CleanupNames : files = {<<"A", n>> : n \in present}

\* two kernels run the notebook at once: the first in directory A with
\* prefix x0, the second in either directory with either prefix
InitTwo ==
    /\ Fresh
    /\ \E p \in {X0, X1} :
         deck = [r \in Runs |-> IF r = 1 THEN ReferenceDeck
                                ELSE [ReferenceDeck EXCEPT !.prefix = p]]
    /\ pc = [r \in Runs |-> "cell1"]
    /\ cwd \in [Runs -> Dirs]
    /\ cwd[1] = "A"
    /\ outData = [d \in Dirs |-> "none"]
    /\ inData = [d \in Dirs |-> <<>>]
    /\ files = {}

\* the user executes cell 5 once more
RerunCleanup(r) ==
    /\ pc[r] = "end"
    /\ cleanCalls[r] < MaxCleanCalls
    /\ pc' = [pc EXCEPT ![r] = "cell5"]
    /\ UNCHANGED <<deck, QE_input_file, f, raised, exit_code, procExit, launch,
                   procState, invocations, cleanCalls, rmErrors, cwd, files, inData,
                   outData, wrote, deleted>>

Next ==
    \E r \in Runs :
        \/ LoadModule(r)
        \/ BuildDeck(r)
        \/ WriteDeck(r)
        \/ ExecStart(r)
        \/ ExecExit(r)
        \/ Cleanup(r)

NextDeck ==
    \E r \in Runs :
        \/ LoadModule(r)
        \/ BuildDeck(r)
        \/ WriteDeck(r)

NextCleanup ==
    \E r \in Runs :
        \/ Cleanup(r)
        \/ RerunCleanup(r)

Spec == Init /\ [][Next]_vars
SpecDeck == InitDeck /\ [][NextDeck]_vars
SpecCleanup == InitCleanup /\ [][NextCleanup]_vars
SpecTwo == InitTwo /\ [][Next]_vars

----------------------------------------------------------------------------
(* Properties *)

PastCell2(r) == pc[r] \notin {"off", "cell1", "cell2"}
PastCell3(r) == pc[r] \notin {"off", "cell1", "cell2", "cell3"}
PositionRows(text) == RowsOf(text, "ATOMIC_POSITIONS")
SpeciesRows(text) == RowsOf(text, "ATOMIC_SPECIES")

\* C1: for every deck whose declared atom count equals its number of
\* coordinate rows and whose declared species-type count equals its number
\* of distinct species, building the deck succeeds (no exception, a text is
\* produced) and the text holds exactly one header for each section.
C1_ValidDeckBuilds ==
    \A r \in Runs :
        (PastCell2(r) /\ CountsConsistent(deck[r])) =>
            /\ raised[r] # "MalformedDeckError"
            /\ QE_input_file[r] # <<>>
            /\ \A n \in SectionNames : HeaderCount(QE_input_file[r], n) = 1

C1_Witness ==
    /\ pc[1] = "cell3"
    /\ deck[1] = ReferenceDeck
    /\ CountsConsistent(deck[1])
    /\ Len(QE_input_file[1]) > 0

\* C2: a deck that violates either count invariant makes the build fail
\* with MalformedDeckError, with no deck text emitted and no deck file
\* written; every other deck never fails.
C2_InvalidDeckRejected ==
    \A r \in Runs :
        PastCell2(r) =>
            IF CountsConsistent(deck[r])
            THEN raised[r] # "MalformedDeckError"
            ELSE /\ raised[r] = "MalformedDeckError"
                 /\ QE_input_file[r] = <<>>
                 /\ <<r, PathOf(cwd[r], InName)>> \notin wrote

\* C3: in every deck text emitted, nat equals the number of
\* ATOMIC_POSITIONS rows and ntyp equals the number of ATOMIC_SPECIES rows,
\* which equals the number of distinct labels among the coordinate rows.
C3_EmittedCountsMatchRows ==
    \A r \in Runs :
        QE_input_file[r] # <<>> =>
            LET t == QE_input_file[r]
            IN  /\ EmittedNat(t) = Cardinality(PositionRows(t))
                /\ EmittedNtyp(t) = Cardinality(SpeciesRows(t))
                /\ Cardinality(SpeciesRows(t))
                     = Cardinality({t[i].name : i \in PositionRows(t)})

C5_HandleClosedOnAllPaths ==
    \A r \in Runs : PastCell3(r) => f[r] # "open"

C7_RoundTrip ==
    \A r \in Runs :
        (f[r] = "closed" /\ raised[r] = "none") =>
            /\ PathOf(cwd[r], InName) \in files
            /\ inData[cwd[r]] = QE_input_file[r]
            /\ QE_input_file[r] = DeckText(deck[r])
            /\ <<r, PathOf(cwd[r], InName)>> \notin deleted

C7_Witness ==
    /\ pc[1] = "end"
    /\ f[1] = "closed"
    /\ deleted # {}
    /\ procExit[1] = 0
    /\ inData["A"] = DeckText(deck[1])

\* C8: the deck file is written and closed before pw.x starts, pw.x has
\* ended before clean.sh starts, the process only goes Idle -> Running ->
\* Done, and the command of cell 4 is issued exactly once in a run that
\* reaches its end.
C8_StateOrder ==
    \A r \in Runs :
        /\ procState[r] # "Idle" =>
               /\ f[r] = "closed"
               /\ inData[cwd[r]] = QE_input_file[r]
        /\ cleanCalls[r] > 0 => procState[r] = "Done"
        /\ pc[r] = "cell5" => procState[r] = "Done"
        /\ invocations[r] <= 1
        /\ pc[r] = "end" => (invocations[r] = 1 /\ cleanCalls[r] = 1)

C8_StepOrder ==
    \A r \in Runs :
        /\ procState'[r] # procState[r] =>
               \/ procState[r] = "Idle" /\ procState'[r] = "Running"
               \/ procState[r] = "Running" /\ procState'[r] = "Done"
        /\ pc'[r] # pc[r] =>
               \/ pc'[r] = "aborted"
               \/ <<pc[r], pc'[r]>> \in
                     {<<"cell1", "cell2">>, <<"cell2", "cell3">>, <<"cell3", "cell4">>,
                      <<"cell4", "running">>, <<"running", "cell5">>, <<"cell5", "end">>}

C8_Sequential == []C8_StateOrder /\ [][C8_StepOrder]_vars

C8_Witness ==
    /\ pc[1] = "end"
    /\ procState[1] = "Done"
    /\ f[1] = "closed"
    /\ invocations[1] = 1
    /\ cleanCalls[1] = 1

\* C9: an error ends the run at the failing step: no later step runs after
\* a failed step (pw.x is not started after a failed deck write, clean.sh
\* does not run after a failed launch), and the files written before the
\* failure stay as they are.
C9_AbortsAtFailingStep ==
    \A r \in Runs :
        /\ raised[r] # "none" => (pc[r] = "aborted" /\ invocations[r] = 0)
        /\ launch[r] = "failed" => cleanCalls[r] = 0

Shares(r1, r2) ==
    \E w \in wrote :
        /\ w[1] = r1
        /\ \E t \in wrote \cup deleted : t[1] = r2 /\ t[2] = w[2]

\* C10 as stated: two runs with distinct working directories or distinct
\* prefixes never write, or write and delete, the same file.
C10_DistinctDirOrPrefix ==
    \A r1, r2 \in Runs :
        (r1 # r2 /\ (cwd[r1] # cwd[r2] \/ deck[r1].prefix # deck[r2].prefix)) =>
            ~Shares(r1, r2)

\* C10 as amended: two runs with distinct working directories never write,
\* or write and delete, the same file.
C10_DistinctDir ==
    \A r1, r2 \in Runs :
        (r1 # r2 /\ cwd[r1] # cwd[r2]) => ~Shares(r1, r2)

C10_Witness ==
    /\ cwd[1] # cwd[2]
    /\ pc[1] = "end" /\ pc[2] = "end"
    /\ \E w \in wrote : w[1] = 1
    /\ \E w \in wrote : w[1] = 2
    /\ \E t \in deleted : t[1] = 1
    /\ \E t \in deleted : t[1] = 2

====
